---- MODULE Spec2Model ----
(***************************************************************************)
(* Model of torchvision/models/quantization/resnet.py: the quantizable     *)
(* ResNet blocks and their fuse_model operations, the QuantizableResNet    *)
(* wrapper, the quantized weights registries and the four factory          *)
(* functions resnet18, resnet50, resnext101_32x8d and resnext101_64x4d.    *)
(*                                                                         *)
(* Two specifications share the variables:                                 *)
(*   Spec      one factory call after another, each call stepping through  *)
(*             the factory body and _resnet;                               *)
(*   SpecFuse  a QuantizableResNet built directly from a block class, on   *)
(*             which fuse_model is called repeatedly.                      *)
(***************************************************************************)
EXTENDS Integers, Sequences, FiniteSets, TLC

VARIABLES
    pc,         \* the position of the running call
    args,       \* the arguments of the call as the caller passed them
    arch,       \* the factory that was called
    weights,    \* the local variable weights
    quantize,   \* the argument quantize
    kwargs,     \* the keyword dictionary, mutated by the overrides
    backend,    \* the local variable backend of _resnet
    model,      \* the network under construction
    result,     \* the network the call returned
    raised,     \* the error the call raised
    trace,      \* the steps of the call that completed, in order
    calls,      \* the number of earlier factory calls
    fuseLog,    \* the fuse operations the last fuse_model call invoked
    fuseCount,  \* the number of fuse_model calls on the network
    flags       \* the is_qat flags of these calls, in order

vars == <<pc, args, arch, weights, quantize, kwargs, backend, model, result,
          raised, trace, calls, fuseLog, fuseCount, flags>>

(***************************************************************************)
(* Bounds of the model.                                                    *)
(***************************************************************************)
\* number of factory calls that are counted (later calls are not counted)
MaxCalls == 1
\* number of blocks of a directly constructed network (SpecFuse)
MaxBlocks == 3
\* number of fuse_model calls on a directly constructed network (SpecFuse)
MaxFuseCalls == 2

(***************************************************************************)
(* Architectures and the weights registries.                               *)
(***************************************************************************)
Archs == {"resnet18", "resnet50", "resnext101_32x8d", "resnext101_64x4d"}

QuantizedRegistry(a) ==
    CASE a = "resnet18" -> "ResNet18_QuantizedWeights"
      [] a = "resnet50" -> "ResNet50_QuantizedWeights"
      [] a = "resnext101_32x8d" -> "ResNeXt101_32X8D_QuantizedWeights"
      [] a = "resnext101_64x4d" -> "ResNeXt101_64X4D_QuantizedWeights"

FloatRegistry(a) ==
    CASE a = "resnet18" -> "ResNet18_Weights"
      [] a = "resnet50" -> "ResNet50_Weights"
      [] a = "resnext101_32x8d" -> "ResNeXt101_32X8D_Weights"
      [] a = "resnext101_64x4d" -> "ResNeXt101_64X4D_Weights"

QuantizedRegistries == {QuantizedRegistry(a) : a \in Archs}
FloatRegistries == {FloatRegistry(a) : a \in Archs}
Registries == QuantizedRegistries \cup FloatRegistries

\* the members of a registry (the floating-point members are those the
\* "unquantized" metadata of the quantized variants refers to)
Members(reg) ==
    CASE reg = "ResNet18_QuantizedWeights" -> {"IMAGENET1K_FBGEMM_V1"}
      [] reg = "ResNet50_QuantizedWeights" -> {"IMAGENET1K_FBGEMM_V1", "IMAGENET1K_FBGEMM_V2"}
      [] reg = "ResNeXt101_32X8D_QuantizedWeights" -> {"IMAGENET1K_FBGEMM_V1", "IMAGENET1K_FBGEMM_V2"}
      [] reg = "ResNeXt101_64X4D_QuantizedWeights" -> {"IMAGENET1K_FBGEMM_V1"}
      [] reg = "ResNet18_Weights" -> {"IMAGENET1K_V1"}
      [] reg = "ResNet50_Weights" -> {"IMAGENET1K_V1", "IMAGENET1K_V2"}
      [] reg = "ResNeXt101_32X8D_Weights" -> {"IMAGENET1K_V1", "IMAGENET1K_V2"}
      [] reg = "ResNeXt101_64X4D_Weights" -> {"IMAGENET1K_V1"}
      [] OTHER -> {}

\* the member the DEFAULT alias of a quantized registry names
QuantizedDefault(reg) ==
    CASE reg = "ResNet18_QuantizedWeights" -> "IMAGENET1K_FBGEMM_V1"
      [] reg = "ResNet50_QuantizedWeights" -> "IMAGENET1K_FBGEMM_V2"
      [] reg = "ResNeXt101_32X8D_QuantizedWeights" -> "IMAGENET1K_FBGEMM_V2"
      [] reg = "ResNeXt101_64X4D_QuantizedWeights" -> "IMAGENET1K_FBGEMM_V1"

\* a weights value: a member of a registry, a string, or None
NoWeights == [reg |-> "None", key |-> "None"]
Variant(reg, key) == [reg |-> reg, key |-> key]
StrWeights(s) == [reg |-> "str", key |-> s]

AllVariants == UNION {{Variant(r, k) : k \in Members(r)} : r \in Registries}

\* the number of ImageNet categories of _IMAGENET_CATEGORIES
LenImagenetCategories == 1000

\* _COMMON_META: every quantized variant carries the categories and the
\* backend; a floating-point variant carries the categories and no backend
HasBackendMeta(w) == w.reg \in QuantizedRegistries
MetaBackend(w) == "fbgemm"
MetaNumCategories(w) == LenImagenetCategories

(***************************************************************************)
(* Modules.  A container (the network's stem, a block, a downsample        *)
(* Sequential) is a function from the names of its children to their       *)
(* state: the type of the module registered under the name, the names      *)
(* fused into it, the fusion strategy used, and for an activation whether  *)
(* it works in place.                                                      *)
(***************************************************************************)
Range(s) == {s[i] : i \in DOMAIN s}

Conv2d == [ty |-> "Conv2d", fused |-> {}, mode |-> "none", inplace |-> FALSE]
BatchNorm2d == [ty |-> "BatchNorm2d", fused |-> {}, mode |-> "none", inplace |-> FALSE]
ReLU(inplace) == [ty |-> "ReLU", fused |-> {}, mode |-> "none", inplace |-> inplace]
FloatFunctional == [ty |-> "FloatFunctional", fused |-> {}, mode |-> "none", inplace |-> FALSE]
Identity == [ty |-> "Identity", fused |-> {}, mode |-> "none", inplace |-> FALSE]
FusedUnit(group, mode) == [ty |-> "Fused", fused |-> Range(group), mode |-> mode, inplace |-> FALSE]

\* the sequences of module types the external fusion pass can fuse
FusablePatterns == {<<"Conv2d", "BatchNorm2d">>, <<"Conv2d", "BatchNorm2d", "ReLU">>}

\* is_qat is None: the container's training flag decides the strategy
FuseMode(is_qat, training) ==
    IF is_qat = "None" THEN (IF training THEN "qat" ELSE "eval")
    ELSE IF is_qat = "True" THEN "qat" ELSE "eval"

Fusable(children, group) ==
    /\ Range(group) \subseteq DOMAIN children
    /\ [i \in 1..Len(group) |-> children[group[i]].ty] \in FusablePatterns

\* variant: the fusion pass rejects a group it cannot fuse
GroupRaisesUnfusable(children, group) == ~Fusable(children, group)

\* the fusion pass on a group that is not fusable: no error
GroupRaises(children, group) == FALSE

\* one group: the first name becomes the fused unit, the others Identity;
\* a group that is not fusable leaves the container unchanged
FuseGroup(children, group, mode) ==
    IF Fusable(children, group)
    THEN [n \in DOMAIN children |->
            IF n = group[1] THEN FusedUnit(group, mode)
            ELSE IF n \in Range(group) THEN Identity
            ELSE children[n]]
    ELSE children

\* the groups in order, in place; an error stops the pass where it is
RECURSIVE FuseGroups(_, _, _)
FuseGroups(children, groups, mode) ==
    IF groups = <<>> THEN [c |-> children, err |-> FALSE]
    ELSE IF GroupRaises(children, Head(groups)) THEN [c |-> children, err |-> TRUE]
    ELSE FuseGroups(FuseGroup(children, Head(groups), mode), Tail(groups), mode)

\* utils._fuse_modules(model, modules_to_fuse, is_qat, inplace=True)
FuseModules(children, groups, is_qat, training) ==
    FuseGroups(children, groups, FuseMode(is_qat, training))

\* the names of the fused units of a container
FusedNames(children) == {n \in DOMAIN children : children[n].ty = "Fused"}

(***************************************************************************)
(* The blocks.                                                             *)
(***************************************************************************)
\* BasicBlock.__init__ followed by QuantizableBasicBlock.__init__
BasicBlockChildren ==
    [conv1 |-> Conv2d, bn1 |-> BatchNorm2d, relu |-> ReLU(TRUE),
     conv2 |-> Conv2d, bn2 |-> BatchNorm2d, add_relu |-> FloatFunctional]

\* Bottleneck.__init__ followed by QuantizableBottleneck.__init__
BottleneckChildren ==
    [conv1 |-> Conv2d, bn1 |-> BatchNorm2d, conv2 |-> Conv2d, bn2 |-> BatchNorm2d,
     conv3 |-> Conv2d, bn3 |-> BatchNorm2d, relu |-> ReLU(TRUE),
     skip_add_relu |-> FloatFunctional, relu1 |-> ReLU(FALSE), relu2 |-> ReLU(FALSE)]

\* the downsample Sequential(conv1x1, norm_layer) of a block
DownsampleChildren == [n \in {"0", "1"} |-> IF n = "0" THEN Conv2d ELSE BatchNorm2d]

BasicKinds == {"QuantizableBasicBlock", "SubclassOfQuantizableBasicBlock", "CustomFusableBlock"}
BottleneckKinds == {"QuantizableBottleneck", "SubclassOfQuantizableBottleneck"}
BlockKinds == BasicKinds \cup BottleneckKinds

Block(kind, hasDownsample) ==
    [kind |-> kind,
     children |-> IF kind \in BottleneckKinds THEN BottleneckChildren ELSE BasicBlockChildren,
     hasDownsample |-> hasDownsample,
     downsample |-> DownsampleChildren]

BasicBlockGroups == <<<<"conv1", "bn1", "relu">>, <<"conv2", "bn2">>>>
\* variant: the two first stages share the activation named relu
BottleneckGroupsSharedRelu == <<<<"conv1", "bn1", "relu">>, <<"conv2", "bn2", "relu">>, <<"conv3", "bn3">>>>
BottleneckGroups == <<<<"conv1", "bn1", "relu1">>, <<"conv2", "bn2", "relu2">>, <<"conv3", "bn3">>>>
DownsampleGroups == <<<<"0", "1">>>>

\* the groups a block's fuse_model passes to _fuse_modules
BlockGroups(kind) == IF kind \in BottleneckKinds THEN BottleneckGroups ELSE BasicBlockGroups

\* "if self.downsample:" of the two fuse_model methods
FusesDownsample(b) == b.hasDownsample

\* QuantizableBasicBlock.fuse_model and QuantizableBottleneck.fuse_model
BlockFuseModel(b, is_qat, training) ==
    LET own == FuseModules(b.children, BlockGroups(b.kind), is_qat, training)
        ds == FuseModules(b.downsample, DownsampleGroups, is_qat, training)
    IN IF own.err THEN [b |-> [b EXCEPT !.children = own.c], err |-> TRUE]
       ELSE IF FusesDownsample(b)
       THEN [b |-> [b EXCEPT !.children = own.c, !.downsample = ds.c], err |-> ds.err]
       ELSE [b |-> [b EXCEPT !.children = own.c], err |-> FALSE]

(***************************************************************************)
(* QuantizableResNet.                                                      *)
(***************************************************************************)
\* the children of ResNet that fuse_model names
StemChildren == [conv1 |-> Conv2d, bn1 |-> BatchNorm2d, relu |-> ReLU(TRUE)]
StemGroups == <<<<"conv1", "bn1", "relu">>>>

NoModel ==
    [exists |-> FALSE, stem |-> StemChildren, blocks |-> <<>>, num_classes |-> 0,
     groups |-> 0, width_per_group |-> 0, training |-> TRUE, stubs |-> FALSE,
     quantized |-> FALSE, qbackend |-> "none", loaded |-> "none"]

\* QuantizableResNet.__init__: the base network plus the quant/dequant stubs
QuantizableResNet(blocks, num_classes, groups, width) ==
    [exists |-> TRUE, stem |-> StemChildren, blocks |-> blocks, num_classes |-> num_classes,
     groups |-> groups, width_per_group |-> width, training |-> TRUE, stubs |-> TRUE,
     quantized |-> FALSE, qbackend |-> "none", loaded |-> "none"]

\* variant: isinstance(m, (QuantizableBottleneck, QuantizableBasicBlock))
IsFusedKindIsinstance(kind) ==
    kind \in {"QuantizableBottleneck", "QuantizableBasicBlock",
              "SubclassOfQuantizableBottleneck", "SubclassOfQuantizableBasicBlock"}

\* "type(m) is QuantizableBottleneck or type(m) is QuantizableBasicBlock"
IsFusedKind(kind) == kind = "QuantizableBottleneck" \/ kind = "QuantizableBasicBlock"

\* the loop "for m in self.modules()" from the i-th block on: the blocks
\* after the loop, the fuse operations it invoked, and whether one raised
RECURSIVE FuseBlocksFrom(_, _, _, _)
FuseBlocksFrom(blocks, is_qat, training, i) ==
    IF i > Len(blocks) THEN [blocks |-> blocks, log |-> <<>>, err |-> FALSE]
    ELSE IF IsFusedKind(blocks[i].kind)
    THEN LET f == BlockFuseModel(blocks[i], is_qat, training)
             visit == <<[target |-> i, flag |-> is_qat]>>
             done == [blocks EXCEPT ![i] = f.b]
         IN IF f.err THEN [blocks |-> done, log |-> visit, err |-> TRUE]
            ELSE LET rest == FuseBlocksFrom(done, is_qat, training, i + 1)
                 IN [rest EXCEPT !.log = visit \o @]
    ELSE FuseBlocksFrom(blocks, is_qat, training, i + 1)

\* QuantizableResNet.fuse_model: the network after the call, the fuse
\* operations it invoked in order (target 0 is the network's own stem,
\* target i the i-th block), and whether the call raised
ResNetFuseModel(net, is_qat) ==
    LET stem == FuseModules(net.stem, StemGroups, is_qat, net.training)
        first == <<[target |-> 0, flag |-> is_qat]>>
    IN IF stem.err THEN [net |-> [net EXCEPT !.stem = stem.c], log |-> first, err |-> TRUE]
       ELSE LET loop == FuseBlocksFrom(net.blocks, is_qat, net.training, 1)
            IN [net |-> [net EXCEPT !.stem = stem.c, !.blocks = loop.blocks],
                log |-> first \o loop.log, err |-> loop.err]

\* the number of fused units of a network
RECURSIVE SumFused(_, _)
SumFused(blocks, i) ==
    IF i > Len(blocks) THEN 0
    ELSE Cardinality(FusedNames(blocks[i].children))
         + (IF blocks[i].hasDownsample THEN Cardinality(FusedNames(blocks[i].downsample)) ELSE 0)
         + SumFused(blocks, i + 1)

FusedUnitCount(net) == Cardinality(FusedNames(net.stem)) + SumFused(net.blocks, 1)

(***************************************************************************)
(* The factory functions and _resnet.                                      *)
(***************************************************************************)
\* the block class and the per-stage repetition counts of each factory
BlockOf(a) == IF a = "resnet18" THEN "QuantizableBasicBlock" ELSE "QuantizableBottleneck"

Layers(a) ==
    CASE a = "resnet18" -> <<2, 2, 2, 2>>
      [] a = "resnet50" -> <<3, 4, 6, 3>>
      [] a = "resnext101_32x8d" -> <<3, 4, 23, 3>>
      [] a = "resnext101_64x4d" -> <<3, 4, 23, 3>>

NumStages == 4

RECURSIVE SumTo(_, _)
SumTo(layers, n) == IF n = 0 THEN 0 ELSE layers[n] + SumTo(layers, n - 1)

\* the stage the i-th block belongs to
StageOf(layers, i) == CHOOSE st \in 1..Len(layers) : SumTo(layers, st - 1) < i /\ i <= SumTo(layers, st)

\* ResNet._make_layer: each stage is a run of layers[stage] blocks, only its
\* first block may carry a downsampling path
MakeBlocks(kind, layers, dsStages) ==
    [i \in 1..SumTo(layers, Len(layers)) |->
        LET st == StageOf(layers, i)
        IN Block(kind, i = SumTo(layers, st - 1) + 1 /\ st \in dsStages)]

\* the stages whose first block has a downsampling path
DownsampleChoices == {{}, 2..NumStages, 1..NumStages}

\* keyword arguments: 0 and "absent" stand for a keyword that is not passed
NoKwargs == [num_classes |-> 0, backend |-> "absent", groups |-> 0, width_per_group |-> 0,
             pretrained |-> "absent"]

\* _utils._ovewrite_named_param(kwargs, param, new_value): the value is set,
\* and a value the caller passed for the same name is no error
OverwriteNamedParam(kw, param, new_value) == [kw EXCEPT ![param] = new_value]
OverwriteRaises(kw, param, new_value) == FALSE

\* the decorated factories and the default their legacy "pretrained" flag names
HasLegacyInterface(a) == a \in {"resnet18", "resnet50", "resnext101_32x8d"}

\* variant: the default does not look at quantize
LegacyDefaultFloatOnly(a, kw_quantize) == Variant(FloatRegistry(a), "IMAGENET1K_V1")

LegacyDefault(a, kw_quantize) ==
    IF kw_quantize THEN Variant(QuantizedRegistry(a), "IMAGENET1K_FBGEMM_V1")
    ELSE Variant(FloatRegistry(a), "IMAGENET1K_V1")

\* _utils.handle_legacy_interface: pretrained is popped and becomes weights
LegacyInterface(a, w, q, kw) ==
    IF HasLegacyInterface(a) /\ kw.pretrained # "absent"
    THEN [weights |-> IF kw.pretrained = "True" THEN LegacyDefault(a, q) ELSE NoWeights,
          kwargs |-> [kw EXCEPT !.pretrained = "absent"]]
    ELSE [weights |-> w, kwargs |-> kw]

\* variant: the quantized registry whatever quantize is
ApplicableRegistryQuantizedOnly(a, q) == QuantizedRegistry(a)

\* "(X_QuantizedWeights if quantize else X_Weights)" of each factory
ApplicableRegistry(a, q) == IF q THEN QuantizedRegistry(a) ELSE FloatRegistry(a)

\* WeightsEnum.verify: None passes, a string is looked up by name, anything
\* else has to be a member of the registry
VerifyOk(reg, w) ==
    \/ w = NoWeights
    \/ w.reg = "str" /\ w.key \in Members(reg)
    \/ w.reg = reg /\ w.key \in Members(reg)

Verify(reg, w) == IF w.reg = "str" THEN Variant(reg, w.key) ELSE w

\* variant: the values of resnext101_32x8d copied into resnext101_64x4d
ForcedGroupsCopied(a) == 32

\* the unconditional overrides of the two ResNeXt factories
ForcedGroups(a) == IF a = "resnext101_32x8d" THEN 32 ELSE 64
ForcedWidth(a) == IF a = "resnext101_32x8d" THEN 8 ELSE 4

FactoryKwargs(a, kw) ==
    IF a \in {"resnext101_32x8d", "resnext101_64x4d"}
    THEN OverwriteNamedParam(OverwriteNamedParam(kw, "groups", ForcedGroups(a)),
                             "width_per_group", ForcedWidth(a))
    ELSE kw

FactoryKwargsRaise(a, kw) ==
    /\ a \in {"resnext101_32x8d", "resnext101_64x4d"}
    /\ \/ OverwriteRaises(kw, "groups", ForcedGroups(a))
       \/ OverwriteRaises(kw, "width_per_group", ForcedWidth(a))

\* variant: the backend of the metadata is not written into the keywords
ResnetKwargsNoBackend(w, kw) ==
    IF w # NoWeights
    THEN OverwriteNamedParam(kw, "num_classes", MetaNumCategories(w))
    ELSE kw

\* _resnet: the overrides from the metadata of the resolved weights
ResnetKwargs(w, kw) ==
    IF w # NoWeights
    THEN LET k1 == OverwriteNamedParam(kw, "num_classes", MetaNumCategories(w))
         IN IF HasBackendMeta(w) THEN OverwriteNamedParam(k1, "backend", MetaBackend(w)) ELSE k1
    ELSE kw

ResnetKwargsRaise(w, kw) ==
    /\ w # NoWeights
    /\ \/ OverwriteRaises(kw, "num_classes", MetaNumCategories(w))
       \/ HasBackendMeta(w) /\ OverwriteRaises(kw, "backend", MetaBackend(w))

\* backend = kwargs.pop("backend", "fbgemm")
PopBackend(kw) == IF kw.backend = "absent" THEN "fbgemm" ELSE kw.backend

\* the defaults of ResNet.__init__ for the keywords that are not passed
DefaultNumClasses == 1000
DefaultGroups == 1
DefaultWidth == 64

\* ResNet.__init__ takes no keyword named pretrained
ConstructRejects(kw) == kw.pretrained # "absent"

Construct(a, kw, dsStages) ==
    QuantizableResNet(MakeBlocks(BlockOf(a), Layers(a), dsStages),
                      IF kw.num_classes = 0 THEN DefaultNumClasses ELSE kw.num_classes,
                      IF kw.groups = 0 THEN DefaultGroups ELSE kw.groups,
                      IF kw.width_per_group = 0 THEN DefaultWidth ELSE kw.width_per_group)

\* utils._replace_relu: every ReLU is replaced by a new ReLU(inplace=False)
ReplaceReluIn(children) ==
    [n \in DOMAIN children |->
        IF children[n].ty = "ReLU" THEN ReLU(FALSE) ELSE children[n]]

ReplaceRelu(net) ==
    [net EXCEPT !.stem = ReplaceReluIn(net.stem),
                !.blocks = [i \in DOMAIN net.blocks |->
                              [net.blocks[i] EXCEPT !.children = ReplaceReluIn(@)]]]

\* utils.quantize_model: eval mode, fuse_model, then the external
\* prepare/calibrate/convert pipeline with the backend
QuantizeModel(net, be) ==
    LET f == ResNetFuseModel([net EXCEPT !.training = FALSE], "False")
    IN IF f.err THEN f
       ELSE [f EXCEPT !.net = [f.net EXCEPT !.quantized = TRUE, !.qbackend = be]]

\* the checkpoint of a weights variant and load_state_dict (strict)
CheckpointQuantized(w) == w.reg \in QuantizedRegistries
CheckpointNumClasses(w) == MetaNumCategories(w)

LoadMatches(net, w) ==
    /\ net.num_classes = CheckpointNumClasses(w)
    /\ net.quantized = CheckpointQuantized(w)

\* variant: the parameters are loaded before the network is quantized
NextStepLoadFirst(step, q, w) ==
    CASE step = "resolve" -> "construct"
      [] step = "construct" -> "replace_relu"
      [] step = "replace_relu" -> IF w # NoWeights THEN "load" ELSE IF q THEN "quantize" ELSE "return"
      [] step = "load" -> IF q THEN "quantize" ELSE "return"
      [] step = "quantize" -> "return"

\* variant: the network is quantized whatever quantize is
NextStepAlwaysQuantize(step, q, w) ==
    CASE step = "resolve" -> "construct"
      [] step = "construct" -> "replace_relu"
      [] step = "replace_relu" -> "quantize"
      [] step = "quantize" -> IF w # NoWeights THEN "load" ELSE "return"
      [] step = "load" -> "return"

\* the control flow of _resnet: the step that follows a step
NextStep(step, q, w) ==
    CASE step = "resolve" -> "construct"
      [] step = "construct" -> "replace_relu"
      [] step = "replace_relu" -> IF q THEN "quantize" ELSE IF w # NoWeights THEN "load" ELSE "return"
      [] step = "quantize" -> IF w # NoWeights THEN "load" ELSE "return"
      [] step = "load" -> "return"

\* variant: a failing step is swallowed and the network returned
OnFailureSwallowed(step) == "return"

\* there is no try/except: a failing step raises out of the factory
OnFailure(step) == "raised"

(***************************************************************************)
(* Inputs of a factory call.                                               *)
(***************************************************************************)
WeightsInputs ==
    {NoWeights} \cup AllVariants
    \cup {StrWeights(s) : s \in {"IMAGENET1K_FBGEMM_V1", "IMAGENET1K_V1", "BOGUS"}}
    \cup {Variant("MobileNet_V2_Weights", "IMAGENET1K_V1")}

NumClassesInputs == {0, 10, 1000}
BackendInputs == {"absent", "fbgemm", "qnnpack"}
GroupsInputs == {0, 16, 32}
WidthInputs == {0, 8}
IsQatInputs == {"None", "True", "False"}

(***************************************************************************)
(* Spec: factory calls.                                                    *)
(***************************************************************************)
NoArgs == [weights |-> NoWeights, kwargs |-> NoKwargs]

Init ==
    /\ pc = "idle"
    /\ args = NoArgs
    /\ arch = "resnet18"
    /\ weights = NoWeights
    /\ quantize = FALSE
    /\ kwargs = NoKwargs
    /\ backend = "unset"
    /\ model = NoModel
    /\ result = NoModel
    /\ raised = "none"
    /\ trace = <<>>
    /\ calls = 0
    /\ fuseLog = <<>>
    /\ fuseCount = 0
    /\ flags = <<>>

\* a caller invokes one of the factories
Call ==
    /\ pc = "idle"
    /\ \E a \in Archs, w \in WeightsInputs, p \in {"absent", "True", "False"}, q \in BOOLEAN,
          nc \in NumClassesInputs, be \in BackendInputs, g \in GroupsInputs, wd \in WidthInputs :
          /\ (p # "absent" => w = NoWeights)
          /\ arch' = a
          /\ weights' = w
          /\ quantize' = q
          /\ kwargs' = [num_classes |-> nc, backend |-> be, groups |-> g,
                        width_per_group |-> wd, pretrained |-> p]
          /\ args' = [weights |-> w, kwargs |-> kwargs']
    /\ pc' = "resolve"
    /\ UNCHANGED <<backend, model, result, raised, trace, calls, fuseLog, fuseCount, flags>>

\* the legacy interface and the verify line of the factory
Resolve ==
    /\ pc = "resolve"
    /\ LET l == LegacyInterface(arch, weights, quantize, kwargs)
           reg == ApplicableRegistry(arch, quantize)
       IN IF VerifyOk(reg, l.weights)
          THEN /\ weights' = Verify(reg, l.weights)
               /\ kwargs' = l.kwargs
               /\ pc' = NextStep("resolve", quantize, weights')
               /\ trace' = Append(trace, "resolve")
               /\ UNCHANGED raised
          ELSE /\ pc' = OnFailure("resolve")
               /\ raised' = "invalid-selection"
               /\ UNCHANGED <<weights, kwargs, trace>>
    /\ UNCHANGED <<args, arch, quantize, backend, model, result, calls, fuseLog, fuseCount, flags>>

\* the keyword overrides and "model = QuantizableResNet(block, layers, **kwargs)"
ConstructStep ==
    /\ pc = "construct"
    /\ LET kw1 == FactoryKwargs(arch, kwargs)
           kw == ResnetKwargs(weights, kw1)
       IN IF FactoryKwargsRaise(arch, kwargs) \/ ResnetKwargsRaise(weights, kw1)
          THEN /\ pc' = OnFailure("construct")
               /\ raised' = "parameter-conflict"
               /\ UNCHANGED <<kwargs, backend, model, trace>>
          ELSE /\ kwargs' = kw
               /\ backend' = PopBackend(kw)
               /\ \E ok \in BOOLEAN, ds \in DownsampleChoices :
                     IF ok /\ ~ConstructRejects(kw)
                     THEN /\ model' = Construct(arch, kw, ds)
                          /\ pc' = NextStep("construct", quantize, weights)
                          /\ trace' = Append(trace, "construct")
                          /\ UNCHANGED raised
                     ELSE /\ pc' = OnFailure("construct")
                          /\ raised' = "construction-error"
                          /\ UNCHANGED <<model, trace>>
    /\ UNCHANGED <<args, arch, weights, quantize, result, calls, fuseLog, fuseCount, flags>>

\* "_replace_relu(model)"
ReplaceReluStep ==
    /\ pc = "replace_relu"
    /\ model' = ReplaceRelu(model)
    /\ pc' = NextStep("replace_relu", quantize, weights)
    /\ trace' = Append(trace, "replace_relu")
    /\ UNCHANGED <<args, arch, weights, quantize, kwargs, backend, result, raised, calls,
                   fuseLog, fuseCount, flags>>

\* "if quantize: quantize_model(model, backend)"
QuantizeStep ==
    /\ pc = "quantize"
    /\ \E ok \in BOOLEAN :
          LET f == QuantizeModel(model, backend)
          IN /\ model' = (IF ok THEN f.net ELSE model)
             /\ fuseLog' = (IF ok THEN f.log ELSE fuseLog)
             /\ fuseCount' = (IF ok THEN fuseCount + 1 ELSE fuseCount)
             /\ flags' = (IF ok THEN Append(flags, "False") ELSE flags)
             /\ IF ok /\ ~f.err
                THEN /\ pc' = NextStep("quantize", quantize, weights)
                     /\ trace' = Append(trace, "quantize")
                     /\ UNCHANGED raised
                ELSE /\ pc' = OnFailure("quantize")
                     /\ raised' = "quantization-error"
                     /\ UNCHANGED trace
    /\ UNCHANGED <<args, arch, weights, quantize, kwargs, backend, result, calls>>

\* "model.load_state_dict(weights.get_state_dict(progress=progress))"
LoadStep ==
    /\ pc = "load"
    /\ \E downloaded \in BOOLEAN :
          IF ~downloaded
          THEN /\ pc' = OnFailure("load")
               /\ raised' = "download-failure"
               /\ UNCHANGED <<model, trace>>
          ELSE IF LoadMatches(model, weights)
          THEN /\ model' = [model EXCEPT !.loaded = "full"]
               /\ pc' = NextStep("load", quantize, weights)
               /\ trace' = Append(trace, "load")
               /\ UNCHANGED raised
          ELSE /\ pc' = OnFailure("load")
               /\ raised' = "structural-mismatch"
               /\ model' = [model EXCEPT !.loaded = "partial"]
               /\ UNCHANGED trace
    /\ UNCHANGED <<args, arch, weights, quantize, kwargs, backend, result, calls,
                   fuseLog, fuseCount, flags>>

\* "return model"
ReturnStep ==
    /\ pc = "return"
    /\ result' = model
    /\ pc' = "returned"
    /\ trace' = Append(trace, "return")
    /\ UNCHANGED <<args, arch, weights, quantize, kwargs, backend, model, raised, calls,
                   fuseLog, fuseCount, flags>>

\* the call is over (returned or raised): its locals are gone and the
\* caller may call again
Finish ==
    /\ pc \in {"returned", "raised"}
    /\ calls < MaxCalls
    /\ calls' = calls + 1
    /\ pc' = "idle"
    /\ args' = NoArgs
    /\ arch' = "resnet18"
    /\ weights' = NoWeights
    /\ quantize' = FALSE
    /\ kwargs' = NoKwargs
    /\ backend' = "unset"
    /\ model' = NoModel
    /\ result' = NoModel
    /\ raised' = "none"
    /\ trace' = <<>>
    /\ fuseLog' = <<>>
    /\ fuseCount' = 0
    /\ flags' = <<>>

Next ==
    \/ Call
    \/ Resolve
    \/ ConstructStep
    \/ ReplaceReluStep
    \/ QuantizeStep
    \/ LoadStep
    \/ ReturnStep
    \/ Finish

Spec == Init /\ [][Next]_vars

(***************************************************************************)
(* SpecFuse: fuse_model on a directly constructed QuantizableResNet.       *)
(***************************************************************************)
BlockSeqs == UNION {[1..n -> {Block(k, d) : k \in BlockKinds, d \in BOOLEAN}] : n \in 1..MaxBlocks}

InitFuse ==
    /\ pc = "user"
    /\ args = NoArgs
    /\ arch = "resnet18"
    /\ weights = NoWeights
    /\ quantize = FALSE
    /\ kwargs = NoKwargs
    /\ backend = "unset"
    /\ \E bs \in BlockSeqs, tr \in BOOLEAN :
          model = [QuantizableResNet(bs, DefaultNumClasses, DefaultGroups, DefaultWidth)
                     EXCEPT !.training = tr]
    /\ result = NoModel
    /\ raised = "none"
    /\ trace = <<>>
    /\ calls = 0
    /\ fuseLog = <<>>
    /\ fuseCount = 0
    /\ flags = <<>>

\* model.fuse_model(is_qat)
FuseModelCall ==
    /\ pc = "user"
    /\ raised = "none"
    /\ fuseCount < MaxFuseCalls
    /\ \E f \in IsQatInputs :
          LET r == ResNetFuseModel(model, f)
          IN /\ model' = r.net
             /\ fuseLog' = r.log
             /\ flags' = Append(flags, f)
             /\ raised' = (IF r.err THEN "fuse-error" ELSE "none")
    /\ fuseCount' = fuseCount + 1
    /\ UNCHANGED <<pc, args, arch, weights, quantize, kwargs, backend, result, trace, calls>>

NextFuse == FuseModelCall

SpecFuse == InitFuse /\ [][NextFuse]_vars

(***************************************************************************)
(* Properties of the factory calls (Spec).                                 *)
(***************************************************************************)
IsResNeXt == arch \in {"resnext101_32x8d", "resnext101_64x4d"}
Resolved == pc \notin {"idle", "resolve", "user"} /\ raised # "invalid-selection"

\* the selection names a member of the registry, as a member or by its name
SelectionIn(w, reg) ==
    \/ w.reg = reg /\ w.key \in Members(reg)
    \/ w.reg = "str" /\ w.key \in Members(reg)

WrongSelection ==
    /\ args.weights # NoWeights
    /\ ~SelectionIn(args.weights, IF quantize THEN QuantizedRegistry(arch) ELSE FloatRegistry(arch))

\* C1: a weights selection that is not a member of the applicable registry
\* (the quantized one when quantize is true, the floating-point one
\* otherwise) makes the factory raise an invalid-selection error before a
\* network is constructed, quantized or loaded.
C1_WrongRegistryFails ==
    (pc \notin {"idle", "resolve", "user"} /\ WrongSelection)
        => /\ pc = "raised"
           /\ raised = "invalid-selection"
           /\ ~model.exists
           /\ ~result.exists
           /\ trace = <<>>
           /\ fuseCount = 0

C1_Witness ==
    /\ pc = "raised"
    /\ raised = "invalid-selection"
    /\ quantize
    /\ args.weights.reg = FloatRegistry(arch)
    /\ args.weights.key \in Members(FloatRegistry(arch))

IsDefaultOfApplicable(w) ==
    IF quantize THEN w = Variant(QuantizedRegistry(arch), QuantizedDefault(QuantizedRegistry(arch)))
    ELSE w.reg = FloatRegistry(arch)

\* C5 as stated: for every factory pretrained=True resolves to the default
\* variant of the quantized registry when quantize is true and to the
\* default of the floating-point registry otherwise.
C5_LegacyIsDefault ==
    (pc \notin {"idle", "resolve", "user"} /\ args.kwargs.pretrained = "True")
        => (raised # "invalid-selection" /\ IsDefaultOfApplicable(weights))

\* C5 amended: for resnet18, resnet50 and resnext101_32x8d pretrained=True
\* resolves to IMAGENET1K_FBGEMM_V1 of the quantized registry when quantize
\* is true and to IMAGENET1K_V1 of the floating-point registry otherwise;
\* resnext101_64x4d has no legacy interface, the flag resolves no weights
\* there and stays a keyword; this holds whatever calls came before.
C5_LegacyIsV1 ==
    (pc \notin {"idle", "resolve", "user"} /\ args.kwargs.pretrained = "True")
        => /\ raised # "invalid-selection"
           /\ IF arch \in {"resnet18", "resnet50", "resnext101_32x8d"}
              THEN /\ weights = (IF quantize
                                 THEN [reg |-> QuantizedRegistry(arch), key |-> "IMAGENET1K_FBGEMM_V1"]
                                 ELSE [reg |-> FloatRegistry(arch), key |-> "IMAGENET1K_V1"])
                   /\ kwargs.pretrained = "absent"
              ELSE /\ weights = NoWeights
                   /\ kwargs.pretrained = "True"

C5_Witness ==
    /\ calls >= 1
    /\ pc = "returned"
    /\ arch = "resnet50"
    /\ quantize
    /\ args.kwargs.pretrained = "True"
    /\ weights.key = "IMAGENET1K_FBGEMM_V1"
    /\ result.loaded = "full"

\* the steps of a successful call, in order
ExpectedTrace ==
    <<"resolve", "construct", "replace_relu">>
    \o (IF quantize THEN <<"quantize">> ELSE <<>>)
    \o (IF weights # NoWeights THEN <<"load">> ELSE <<>>)
    \o <<"return">>

IsPrefix(s, t) == Len(s) <= Len(t) /\ \A i \in 1..Len(s) : s[i] = t[i]

\* C6: a call performs resolve, construct, replace activations, quantize
\* (only if quantize), load (only if weights were resolved) and return in
\* this order: nothing is loaded before the activations are replaced and
\* the network is quantized, nothing is returned before a requested load.
C6_StepOrder ==
    /\ pc \notin {"idle", "user"} => IsPrefix(trace, ExpectedTrace)
    /\ pc = "returned" => trace = ExpectedTrace
    /\ pc = "quantize" => (quantize /\ model.loaded = "none")
    /\ pc = "load" => /\ weights # NoWeights
                      /\ trace[Len(trace)] = (IF quantize THEN "quantize" ELSE "replace_relu")
                      /\ model.quantized = quantize
    /\ model.quantized => model.qbackend = backend
    /\ (pc = "returned" /\ weights # NoWeights) => result.loaded = "full"

C6_Witness ==
    /\ pc = "returned"
    /\ quantize
    /\ weights # NoWeights
    /\ trace = <<"resolve", "construct", "replace_relu", "quantize", "load", "return">>

C8_FusedIffQuantize ==
    /\ pc = "returned" => /\ (FusedUnitCount(result) > 0) = quantize
                          /\ result.quantized = quantize
    /\ (pc \notin {"idle", "user"} /\ ~quantize)
          => (fuseCount = 0 /\ FusedUnitCount(model) = 0 /\ ~model.quantized)

C8_Witness ==
    /\ pc = "returned"
    /\ quantize
    /\ weights = NoWeights
    /\ FusedUnitCount(result) > 0

(***************************************************************************)
(* Properties of fuse_model (SpecFuse).                                    *)
(***************************************************************************)
\* the fused units of a network: where they are and what they hold
FusedUnits(net) ==
    {<<0, n, net.stem[n].fused>> : n \in FusedNames(net.stem)}
    \cup UNION {{<<i, n, net.blocks[i].children[n].fused>> : n \in FusedNames(net.blocks[i].children)}
                  : i \in DOMAIN net.blocks}
    \cup UNION {{<<i, n, net.blocks[i].downsample[n].fused>> : n \in FusedNames(net.blocks[i].downsample)}
                  : i \in DOMAIN net.blocks}

Count(log, t) == Cardinality({k \in DOMAIN log : log[k].target = t})

\* C9: fuse_model fuses the network's own conv1/bn1/relu first and then
\* invokes the fuse operation, with its own flag, exactly once on every
\* block whose class is QuantizableBottleneck or QuantizableBasicBlock, and
\* on no block of a subclass or of another class that can fuse.
C9_ExactKindOnly ==
    (fuseCount >= 1 /\ raised = "none")
        => /\ fuseLog[1].target = 0
           /\ Count(fuseLog, 0) = 1
           /\ FusedNames(model.stem) = {"conv1"}
           /\ \A k \in DOMAIN fuseLog : fuseLog[k].flag = flags[Len(flags)]
           /\ \A k \in DOMAIN fuseLog : fuseLog[k].target \in {0} \cup DOMAIN model.blocks
           /\ \A i \in DOMAIN model.blocks :
                 IF model.blocks[i].kind \in {"QuantizableBottleneck", "QuantizableBasicBlock"}
                 THEN Count(fuseLog, i) = 1 /\ FusedNames(model.blocks[i].children) # {}
                 ELSE /\ Count(fuseLog, i) = 0
                      /\ FusedNames(model.blocks[i].children) = {}
                      /\ FusedNames(model.blocks[i].downsample) = {}

C9_Witness ==
    /\ fuseCount >= 1
    /\ \E i, j, k \in DOMAIN model.blocks :
          /\ model.blocks[i].kind = "SubclassOfQuantizableBasicBlock"
          /\ model.blocks[j].kind = "QuantizableBasicBlock"
          /\ model.blocks[k].kind = "CustomFusableBlock"
          /\ FusedNames(model.blocks[i].children) = {}
          /\ FusedNames(model.blocks[j].children) # {}

\* what a fused block holds
BasicFused(c) ==
    /\ FusedNames(c) = {"conv1", "conv2"}
    /\ c.conv1.fused = {"conv1", "bn1", "relu"}
    /\ c.conv2.fused = {"conv2", "bn2"}
    /\ \A n \in {"bn1", "relu", "bn2"} : c[n].ty = "Identity"
    /\ c.add_relu.ty = "FloatFunctional"

BottleneckFused(c) ==
    /\ FusedNames(c) = {"conv1", "conv2", "conv3"}
    /\ c.conv1.fused = {"conv1", "bn1", "relu1"}
    /\ c.conv2.fused = {"conv2", "bn2", "relu2"}
    /\ c.conv3.fused = {"conv3", "bn3"}
    /\ \A n \in {"bn1", "relu1", "bn2", "relu2", "bn3"} : c[n].ty = "Identity"
    /\ c.relu.ty = "ReLU"
    /\ c.skip_add_relu.ty = "FloatFunctional"

\* C10: the fuse operation of a narrow block fuses {conv1,bn1,relu} and
\* {conv2,bn2}, that of a bottleneck block {conv1,bn1,relu1},
\* {conv2,bn2,relu2} and {conv3,bn3}, each stage with its own activation,
\* and the downsample pair is fused exactly if the block has a downsampling
\* path; a block without one raises nothing.
C10_BlockGroups ==
    fuseCount >= 1
        => /\ raised = "none"
           /\ \A i \in DOMAIN model.blocks :
                 LET b == model.blocks[i]
                 IN /\ b.kind = "QuantizableBasicBlock" => BasicFused(b.children)
                    /\ b.kind = "QuantizableBottleneck" => BottleneckFused(b.children)
                    /\ b.kind \in {"QuantizableBasicBlock", "QuantizableBottleneck"}
                          => /\ (FusedNames(b.downsample) # {}) = b.hasDownsample
                             /\ b.hasDownsample => b.downsample["0"].fused = {"0", "1"}

C10_Witness ==
    /\ fuseCount >= 1
    /\ raised = "none"
    /\ \E i, j \in DOMAIN model.blocks :
          /\ model.blocks[i].kind = "QuantizableBottleneck"
          /\ model.blocks[i].hasDownsample
          /\ FusedNames(model.blocks[i].downsample) = {"0"}
          /\ model.blocks[j].kind = "QuantizableBasicBlock"
          /\ ~model.blocks[j].hasDownsample
          /\ FusedNames(model.blocks[j].downsample) = {}

====
